---- MODULE Spec2Model ----
(***************************************************************************)
(* Chat client (src/src/components/chat-interface.tsx) and its two relay   *)
(* handlers (src/src/app/api/chat/route.ts,                                *)
(* src/src/app/api/generate-image/route.ts).                               *)
(*                                                                         *)
(* Text is a sequence of one-character strings, so that trim(),            *)
(* toLowerCase() and includes() are computed character by character.       *)
(* A JavaScript object is a record; a property that is undefined is a      *)
(* field the record does not have.                                         *)
(***************************************************************************)
EXTENDS Integers, Sequences, FiniteSets, TLC

\* ------------------------------------------------------------------ bounds
\* longest text the intent detector is enumerated on (SpecIntent)
MaxLen == 3
\* longest message list of an enumerated /api/chat request (SpecRelay)
MaxReqMsgs == 2
\* handleSubmit is not offered once the active conversation has this many messages
MaxMessages == 1
\* the clock (Date.now()) stops advancing here
MaxClock == 2
\* files being read plus images selected, in the client specification
MaxPicked == 1
\* saveChat does not add a conversation once this many are saved
MaxSaved == 2
\* the longest text typed exceeds the 50 characters of a title by this much (SpecTitle)
MaxOver == 1
\* images selected or being read beyond the five allowed (SpecPick)
MaxExtra == 1

\* ------------------------------------------------------------------ text
\* String.prototype.trim() strips these from both ends
WhiteSpace == {" ", "\t", "\n"}

UpperChars ==
  <<"A","B","C","D","E","F","G","H","I","J","K","L","M","N","O","P","Q","R","S",
    "T","U","V","W","X","Y","Z","Ç","Á","Ã","Ê">>
LowerChars ==
  <<"a","b","c","d","e","f","g","h","i","j","k","l","m","n","o","p","q","r","s",
    "t","u","v","w","x","y","z","ç","á","ã","ê">>

\* one character of String.prototype.toLowerCase()
ToLowerChar(c) ==
  IF \E i \in 1..Len(UpperChars) : UpperChars[i] = c
  THEN LowerChars[CHOOSE i \in 1..Len(UpperChars) : UpperChars[i] = c]
  ELSE c

toLowerCase(text) == [i \in 1..Len(text) |-> ToLowerChar(text[i])]

\* String.prototype.includes(): keyword occurs in text at some offset
includes(text, keyword) ==
  \E i \in 0..(Len(text) - Len(keyword)) :
    SubSeq(text, i + 1, i + Len(keyword)) = keyword

\* String.prototype.trim()
trim(text) ==
  LET keep == {i \in 1..Len(text) : text[i] \notin WhiteSpace}
  IN  IF keep = {} THEN <<>>
      ELSE SubSeq(text,
                  CHOOSE i \in keep : \A j \in keep : i <= j,
                  CHOOSE i \in keep : \A j \in keep : j <= i)

imageKeywords ==
  << <<"g","e","r","a","r"," ","i","m","a","g","e","m">>,
     <<"c","r","i","a","r"," ","i","m","a","g","e","m">>,
     <<"d","e","s","e","n","h","a","r">>,
     <<"i","l","u","s","t","r","a","r">>,
     <<"f","a","z","e","r"," ","u","m"," ","d","e","s","e","n","h","o">>,
     <<"g","e","n","e","r","a","t","e"," ","i","m","a","g","e">>,
     <<"c","r","e","a","t","e"," ","i","m","a","g","e">>,
     <<"d","r","a","w">>,
     <<"i","l","l","u","s","t","r","a","t","e">>,
     <<"m","a","k","e"," ","a"," ","d","r","a","w","i","n","g">>,
     <<"p","i","n","t","a","r">>,
     <<"p","i","n","t","u","r","a">>,
     <<"a","r","t","e">>,
     <<"a","r","t">>,
     <<"p","a","i","n","t","i","n","g">>,
     <<"s","k","e","t","c","h">>,
     <<"e","s","b","o","ç","o">> >>

\* variant: the keywords are looked up in the text as typed
isImageGenerationRequestCaseSensitive(text) ==
  \E k \in 1..Len(imageKeywords) : includes(text, imageKeywords[k])

isImageGenerationRequest(text) ==
  LET lowerText == toLowerCase(text)
  IN  \E k \in 1..Len(imageKeywords) : includes(lowerText, imageKeywords[k])

\* handleSubmit's routing condition (line 301); images is the selectedImages
\* the submitting closure holds
RoutesToImageGeneration(text, images) ==
  isImageGenerationRequest(text) /\ Len(images) = 0

\* 'Aqui está a imagem que você pediu:'
ImageReplyText ==
  <<"A","q","u","i"," ","e","s","t","á"," ","a"," ","i","m","a","g","e","m"," ","q","u","e"," ","v","o","c","ê"," ","p","e","d","i","u",":">>
\* 'Desculpe, não consegui gerar a imagem. Vou responder com texto.'
ImageFallbackText ==
  <<"D","e","s","c","u","l","p","e",","," ","n","ã","o"," ","c","o","n","s","e","g","u","i"," ","g","e","r","a","r"," ","a"," ","i","m","a","g","e","m","."," ","V","o","u"," ","r","e","s","p","o","n","d","e","r"," ","c","o","m"," ","t","e","x","t","o",".">>
\* 'Sorry, I encountered an error. Please try again.'
ErrorReplyText ==
  <<"S","o","r","r","y",","," ","I"," ","e","n","c","o","u","n","t","e","r","e","d"," ","a","n"," ","e","r","r","o","r","."," ","P","l","e","a","s","e"," ","t","r","y"," ","a","g","a","i","n",".">>
\* 'Sorry, I could not generate a response.'
NoResponseText ==
  <<"S","o","r","r","y",","," ","I"," ","c","o","u","l","d"," ","n","o","t"," ","g","e","n","e","r","a","t","e"," ","a"," ","r","e","s","p","o","n","s","e",".">>
\* "What's in these images?"
DefaultImageQuestion ==
  <<"W","h","a","t","'","s"," ","i","n"," ","t","h","e","s","e"," ","i","m","a","g","e","s","?">>

\* ------------------------------------------------------------------ relay handlers
\* JSON values other than objects: {t: type, v: value}
JNull == [t |-> "null"]
JStr(s) == [t |-> "string", v |-> s]
JNum(n) == [t |-> "number", v |-> n]
JArr(items) == [t |-> "array", v |-> items]
JObj == [t |-> "object"]

Has(obj, field) == field \in DOMAIN obj

\* process.env: OPENAI_API_KEY unset, set to the empty string, or set
EnvNoKey == [NODE_ENV |-> "production"]
EnvEmptyKey == [NODE_ENV |-> "production", OPENAI_API_KEY |-> ""]
EnvWithKey == [NODE_ENV |-> "production", OPENAI_API_KEY |-> "sk-test"]
Envs == {EnvNoKey, EnvEmptyKey, EnvWithKey}

\* !process.env.OPENAI_API_KEY
KeyMissing(env) == ~Has(env, "OPENAI_API_KEY") \/ env.OPENAI_API_KEY = ""

Response(status, json) == [status |-> status, json |-> json]

\* NextResponse.json(body) without an init object answers 200
ConfigError ==
  Response(500, [success |-> FALSE, error |-> "OpenAI API key not configured"])
ChatBadRequest == Response(400, [error |-> "Messages array is required"])
ChatCatch ==
  Response(500, [success |-> FALSE, error |-> "Failed to get response from OpenAI"])
ImageBadRequest == Response(400, [error |-> "Prompt is required"])
ImageCatch ==
  Response(500, [success |-> FALSE, error |-> "Failed to generate image with DALL-E"])

\* A request body: req.json() rejects ("invalid"), or resolves to null, or to
\* an object whose properties are the record's other fields.
\* `const { messages, responseMode = 'detailed' } = null` throws a TypeError.
BodyThrows(body) == body.parse \in {"invalid", "null"}

\* msg.imageUrl || (msg.imageUrls && msg.imageUrls.length > 0)
MsgHasImages(msg) ==
  \/ Has(msg, "imageUrl") /\ msg.imageUrl # ""
  \/ Has(msg, "imageUrls") /\ Len(msg.imageUrls) > 0

TextPart(text) == [type |-> "text", text |-> text]
ImagePart(url) == [type |-> "image_url", image_url |-> [url |-> url]]

\* the callback of messages.map (route.ts lines 43..83)
ProcessMessage(msg) ==
  IF msg.role = "user" /\ MsgHasImages(msg)
  THEN [role |-> "user",
        content |->
          JArr(<<TextPart(IF msg.content # <<>> THEN msg.content
                          ELSE DefaultImageQuestion)>>
               \o (IF Has(msg, "imageUrl") /\ msg.imageUrl # ""
                   THEN <<ImagePart(msg.imageUrl)>> ELSE <<>>)
               \o (IF Has(msg, "imageUrls") /\ Len(msg.imageUrls) > 0
                   THEN [i \in 1..Len(msg.imageUrls) |-> ImagePart(msg.imageUrls[i])]
                   ELSE <<>>))]
  ELSE [role |-> msg.role, content |-> JStr(msg.content)]

processedMessages(messages) ==
  [i \in 1..Len(messages) |-> ProcessMessage(messages[i])]

\* variant: the model follows the user messages only, like ProcessMessage
hasImagesOfUsers(messages) ==
  \E i \in 1..Len(messages) : messages[i].role = "user" /\ MsgHasImages(messages[i])

hasImages(messages) == \E i \in 1..Len(messages) : MsgHasImages(messages[i])

SelectModel(messages) == IF hasImages(messages) THEN "gpt-4o" ELSE "gpt-4"

\* variant: a request without responseMode gets the balanced mode
ResponseModeDefaultBalanced(body) ==
  IF Has(body, "responseMode") THEN body.responseMode ELSE JStr("balanced")

\* const { responseMode = 'detailed' }: the default applies to undefined only
ResponseModeOf(body) ==
  IF Has(body, "responseMode") THEN body.responseMode ELSE JStr("detailed")

MaxTokens(responseMode) ==
  IF responseMode = "detailed" THEN 3000
  ELSE IF responseMode = "balanced" THEN 2000 ELSE 1000

\* temperature in tenths: 0.8, 0.7, 0.6
TemperatureTenths(responseMode) ==
  IF responseMode = "detailed" THEN 8
  ELSE IF responseMode = "balanced" THEN 7 ELSE 6

\* which instruction block the template literal selects (lines 98..173)
SystemTemplate(responseMode) ==
  IF responseMode = "detailed" THEN "MODO DETALHADO"
  ELSE IF responseMode = "balanced" THEN "MODO BALANCEADO" ELSE "MODO CONCISO"

\* the argument of openai.chat.completions.create (lines 91..185)
ChatPayload(messages, responseMode) ==
  [model |-> SelectModel(messages),
   messages |->
     <<[role |-> "system",
        content |-> [mode |-> responseMode, template |-> SystemTemplate(responseMode)]]>>
     \o processedMessages(messages),
   max_tokens |-> MaxTokens(responseMode),
   temperature |-> TemperatureTenths(responseMode)]

\* variant: the body is read before the credential is checked
ChatHandleParsingFirst(env, body) ==
  IF BodyThrows(body) THEN [resp |-> ChatCatch]
  ELSE IF KeyMissing(env) THEN [resp |-> ConfigError]
  ELSE IF ~Has(body, "messages") \/ body.messages.t # "array"
       THEN [resp |-> ChatBadRequest]
  ELSE IF ResponseModeOf(body).t # "string" THEN [resp |-> ChatCatch]
  ELSE [call |-> ChatPayload(body.messages.v, ResponseModeOf(body).v)]

\* /api/chat up to the upstream call: an early response, or the call it makes.
\* responseMode.toUpperCase() throws for a responseMode that is no string.
ChatHandle(env, body) ==
  IF KeyMissing(env) THEN [resp |-> ConfigError]
  ELSE IF BodyThrows(body) THEN [resp |-> ChatCatch]
  ELSE IF ~Has(body, "messages") \/ body.messages.t # "array"
       THEN [resp |-> ChatBadRequest]
  ELSE IF ResponseModeOf(body).t # "string" THEN [resp |-> ChatCatch]
  ELSE [call |-> ChatPayload(body.messages.v, ResponseModeOf(body).v)]

\* variant: the catch block passes the provider's error on
ChatCompleteLeakingDetail(up) ==
  IF ~up.ok THEN Response(500, [success |-> FALSE, error |-> up.detail])
  ELSE IF ~Has(up, "choices") THEN ChatCatch
  ELSE Response(200,
         [success |-> TRUE,
          message |-> IF Len(up.choices) > 0 /\ up.choices[1].content # <<>>
                      THEN up.choices[1].content ELSE NoResponseText])

\* An upstream outcome of chat.completions.create: it rejects
\* ({ok: FALSE, detail}), or resolves to a completion ({ok: TRUE, choices?}).
\* completion.choices[0]?.message?.content || 'Sorry, I could not ...'
ChatComplete(up) ==
  IF ~up.ok THEN ChatCatch
  ELSE IF ~Has(up, "choices") THEN ChatCatch
  ELSE Response(200,
         [success |-> TRUE,
          message |-> IF Len(up.choices) > 0 /\ up.choices[1].content # <<>>
                      THEN up.choices[1].content ELSE NoResponseText])

ChatPOST(env, body, up) ==
  LET h == ChatHandle(env, body)
  IN  IF Has(h, "resp") THEN h.resp ELSE ChatComplete(up)

\* the argument of openai.images.generate (lines 30..37)
ImagePayload(prompt) ==
  [model |-> "dall-e-3", prompt |-> prompt, n |-> 1, size |-> "1024x1024",
   quality |-> "standard", response_format |-> "url"]

\* !prompt || typeof prompt !== 'string'
PromptRejected(body) ==
  \/ ~Has(body, "prompt")
  \/ body.prompt.t # "string"
  \/ body.prompt.v = <<>>

ImageHandle(env, body) ==
  IF KeyMissing(env) THEN [resp |-> ConfigError]
  ELSE IF BodyThrows(body) THEN [resp |-> ImageCatch]
  ELSE IF PromptRejected(body) THEN [resp |-> ImageBadRequest]
  ELSE [call |-> ImagePayload(body.prompt.v)]

\* response.data?.[0]?.url
FirstUrl(up) ==
  IF Has(up, "data") /\ Len(up.data) > 0 /\ Has(up.data[1], "url")
  THEN up.data[1].url ELSE ""

ImageComplete(prompt, up) ==
  IF ~up.ok THEN ImageCatch
  ELSE IF FirstUrl(up) = "" THEN ImageCatch
  ELSE Response(200, [success |-> TRUE, imageUrl |-> FirstUrl(up), prompt |-> prompt])

ImagePOST(env, body, up) ==
  LET h == ImageHandle(env, body)
  IN  IF Has(h, "resp") THEN h.resp ELSE ImageComplete(h.call.prompt, up)

\* ------------------------------------------------------------------ state
VARIABLES
  messages,          \* useState<Message[]>: the active conversation
  input,             \* useState(''): the text field
  isLoading,         \* useState(false)
  isGeneratingImage, \* useState(false)
  selectedImages,    \* useState<string[]>: data URLs attached to the next turn
  currentChatId,     \* useState<string | null>: <<>> is null, <<id>> an identifier
  pendingReads,      \* FileReader.readAsDataURL calls whose onload has not run
  pc,                \* where the running handleSubmit is suspended
  turn,              \* what the running handleSubmit's closure holds
  fetches,           \* the fetch() calls of the latest accepted submission
  appended,          \* the messages its setMessages updaters appended
  now,               \* Date.now()
  lastOp,            \* what ran last: "handleSubmit", "saveChat", "deleteChat" (a
                     \* confirmed one), "mount" (the page was loaded again), else "other"
  savedChats,        \* useState<SavedChat[]>: the saved conversations
  showSaveDialog,    \* useState(false)
  chatTitle,         \* useState(''): the title field of the save dialog
  store,             \* localStorage: the entry 'savedChats'
  srvReq,            \* relay: the request being handled (<<>>: none)
  srvPc,             \* relay: "idle", "received", "upstream" or "responded"
  srvCalls,          \* relay: the calls made to the upstream provider
  srvUp,             \* relay: what the upstream provider answered
  srvResp            \* relay: the response returned

storeVars == <<savedChats, showSaveDialog, chatTitle, store>>
clientVars ==
  <<messages, input, isLoading, isGeneratingImage, selectedImages, currentChatId,
    pendingReads, pc, turn, fetches, appended, now, lastOp, storeVars>>
srvVars == <<srvReq, srvPc, srvCalls, srvUp, srvResp>>
vars == <<clientVars, srvVars>>

\* ------------------------------------------------------------------ inputs
\* what the user types
InputTexts ==
  { <<>>,
    <<" ">>,
    <<"h","i">>,
    <<" ","D","r","a","w"," ","a"," ","c","a","t"," ">> }

\* files offered to the file input or pasted: a readable image, one over
\* 10 MB, one that is no image
\* (type is the MIME type split at its slash)
GoodFile == [size |-> 1024, type |-> <<"image", "png">>, url |-> "data:image/png;base64,AA"]
BigFile == [size |-> 10 * 1024 * 1024 + 1, type |-> <<"image", "png">>, url |-> "data:big"]
TextFile == [size |-> 1024, type |-> <<"text", "plain">>, url |-> "data:text"]
Files == {GoodFile, BigFile, TextFile}
FileLists == {<<f>> : f \in Files} \cup {<<f, g>> : f \in {GoodFile}, g \in Files}

\* what the upstream providers may answer
ReplyText == <<"o","k">>
ChatOutcomes ==
  { [ok |-> FALSE, detail |-> "429 rate limit"],
    [ok |-> FALSE, detail |-> "ETIMEDOUT"],
    [ok |-> TRUE],
    [ok |-> TRUE, choices |-> <<>>],
    [ok |-> TRUE, choices |-> <<[content |-> <<>>]>>],
    [ok |-> TRUE, choices |-> <<[content |-> ReplyText]>>] }
ImageOutcomes ==
  { [ok |-> FALSE, detail |-> "400 content policy"],
    [ok |-> FALSE, detail |-> "ETIMEDOUT"],
    [ok |-> TRUE],
    [ok |-> TRUE, data |-> <<>>],
    [ok |-> TRUE, data |-> <<[revised_prompt |-> "x"]>>],
    [ok |-> TRUE, data |-> <<[url |-> ""]>>],
    [ok |-> TRUE, data |-> <<[url |-> "https://img/1"]>>] }

\* ------------------------------------------------------------------ client
\* localStorage.getItem('savedChats') === null
StoreAbsent == [present |-> FALSE]

IdleTurn == [busy |-> FALSE]

ClientInit ==
  /\ messages = <<>>
  /\ input = <<>>
  /\ isLoading = FALSE
  /\ isGeneratingImage = FALSE
  /\ selectedImages = <<>>
  /\ currentChatId = <<>>
  /\ pendingReads = <<>>
  /\ pc = "idle"
  /\ turn = IdleTurn
  /\ fetches = <<>>
  /\ appended = <<>>
  /\ now = 1
  /\ lastOp = "other"
  /\ savedChats = <<>>
  /\ showSaveDialog = FALSE
  /\ chatTitle = <<>>
  /\ store = StoreAbsent

SrvIdle ==
  /\ srvReq = <<>>
  /\ srvPc = "idle"
  /\ srvCalls = <<>>
  /\ srvUp = <<>>
  /\ srvResp = <<>>

\* the input element and the file button are disabled={isLoading || isGeneratingImage}
ControlsEnabled == ~isLoading /\ ~isGeneratingImage

\* the clock advances
Tick ==
  /\ now < MaxClock
  /\ now' = now + 1
  /\ lastOp' = "other"
  /\ UNCHANGED <<messages, input, isLoading, isGeneratingImage, selectedImages,
                 currentChatId, pendingReads, pc, turn, fetches, appended, storeVars, srvVars>>

\* onChange={(e) => setInput(e.target.value)}
SetInput(text) ==
  /\ ControlsEnabled
  /\ input' = text
  /\ lastOp' = "other"
  /\ UNCHANGED <<messages, isLoading, isGeneratingImage, selectedImages,
                 currentChatId, pendingReads, pc, turn, fetches, appended, now, storeVars, srvVars>>

\* type.startsWith('image/')
IsImageType(type) == type[1] = "image"

\* processImageFile's three checks; images is the selectedImages of the render
\* the calling handler closed over
FileAccepted(file, images) ==
  /\ ~(file.size > 10 * 1024 * 1024)
  /\ IsImageType(file.type)
  /\ ~(Len(images) >= 5)

\* the readAsDataURL calls processImageFile starts for a list of files
RECURSIVE ReadsStarted(_, _)
ReadsStarted(files, images) ==
  IF files = <<>> THEN <<>>
  ELSE (IF FileAccepted(Head(files), images) THEN <<Head(files).url>> ELSE <<>>)
       \o ReadsStarted(Tail(files), images)

\* the files offered keep the images selected and being read within cap
WithinCap(files, cap) ==
  Len(selectedImages) + Len(pendingReads) + Len(ReadsStarted(files, selectedImages)) <= cap

handleImageUpload(files) ==
  /\ ControlsEnabled
  /\ pendingReads' = pendingReads \o ReadsStarted(files, selectedImages)
  /\ lastOp' = "other"
  /\ UNCHANGED <<messages, input, isLoading, isGeneratingImage, selectedImages,
                 currentChatId, pc, turn, fetches, appended, now, storeVars, srvVars>>

\* the first clipboard item that is an image goes to processImageFile
handlePaste(file) ==
  /\ ControlsEnabled
  /\ IsImageType(file.type)
  /\ pendingReads' = pendingReads \o ReadsStarted(<<file>>, selectedImages)
  /\ lastOp' = "other"
  /\ UNCHANGED <<messages, input, isLoading, isGeneratingImage, selectedImages,
                 currentChatId, pc, turn, fetches, appended, now, storeVars, srvVars>>

RemoveAt(seq, i) == SubSeq(seq, 1, i - 1) \o SubSeq(seq, i + 1, Len(seq))

\* reader.onload: setSelectedImages(prev => [...prev, imageUrl])
ReaderOnload(i) ==
  /\ i \in 1..Len(pendingReads)
  /\ selectedImages' = Append(selectedImages, pendingReads[i])
  /\ pendingReads' = RemoveAt(pendingReads, i)
  /\ lastOp' = "other"
  /\ UNCHANGED <<messages, input, isLoading, isGeneratingImage, currentChatId,
                 pc, turn, fetches, appended, now, storeVars, srvVars>>

removeImage(index) ==
  /\ index \in 1..Len(selectedImages)
  /\ selectedImages' = RemoveAt(selectedImages, index)
  /\ lastOp' = "other"
  /\ UNCHANGED <<messages, input, isLoading, isGeneratingImage, currentChatId,
                 pendingReads, pc, turn, fetches, appended, now, storeVars, srvVars>>

removeAllImages ==
  /\ Len(selectedImages) > 0
  /\ selectedImages' = <<>>
  /\ lastOp' = "other"
  /\ UNCHANGED <<messages, input, isLoading, isGeneratingImage, currentChatId,
                 pendingReads, pc, turn, fetches, appended, now, storeVars, srvVars>>

startNewChat ==
  /\ messages' = <<>>
  /\ selectedImages' = <<>>
  /\ input' = <<>>
  /\ currentChatId' = <<>>
  /\ lastOp' = "other"
  /\ UNCHANGED <<isLoading, isGeneratingImage, pendingReads, pc, turn, fetches,
                 appended, now, storeVars, srvVars>>

\* the button is disabled={messages.length === 0}; confirmed is confirm()'s answer
clearCurrentChat(confirmed) ==
  /\ Len(messages) > 0
  /\ IF confirmed
     THEN /\ messages' = <<>>
          /\ selectedImages' = <<>>
          /\ input' = <<>>
          /\ currentChatId' = <<>>
     ELSE UNCHANGED <<messages, selectedImages, input, currentChatId>>
  /\ lastOp' = "other"
  /\ UNCHANGED <<isLoading, isGeneratingImage, pendingReads, pc, turn, fetches,
                 appended, now, storeVars, srvVars>>

\* JSON.stringify of one entry of the chat request (lines 335..340): a
\* property that is undefined is not serialized
WireMessage(msg) ==
  [f \in {"role", "content"} \cup (DOMAIN msg \cap {"imageUrl", "imageUrls"}) |-> msg[f]]

ChatFetch(closureMessages, userMessage) ==
  [url |-> "/api/chat",
   body |-> [parse |-> "ok",
             messages |-> JArr([i \in 1..(Len(closureMessages) + 1) |->
                                 WireMessage(Append(closureMessages, userMessage)[i])])]]

\* variant: the prompt is sent in lower case, as the detector saw it
ImageFetchLowerCased(prompt) ==
  [url |-> "/api/generate-image",
   body |-> [parse |-> "ok", prompt |-> JStr(toLowerCase(prompt))]]

ImageFetch(prompt) ==
  [url |-> "/api/generate-image",
   body |-> [parse |-> "ok", prompt |-> JStr(prompt)]]

\* the Message built at lines 282..288
UserMessage(text, images) ==
  IF Len(images) > 0
  THEN [id |-> now, role |-> "user", content |-> text, timestamp |-> now,
        imageUrls |-> images]
  ELSE [id |-> now, role |-> "user", content |-> text, timestamp |-> now]

\* variant: the in-flight flag is not consulted
SubmitRejectedIgnoringFlight == trim(input) = <<>> /\ Len(selectedImages) = 0

\* the early return of line 280
SubmitRejected == (trim(input) = <<>> /\ Len(selectedImages) = 0) \/ isLoading

\* handleSubmit, from the event to its first await
handleSubmit ==
  /\ lastOp' = "handleSubmit"
  /\ IF SubmitRejected
     THEN UNCHANGED <<messages, input, isLoading, isGeneratingImage, selectedImages,
                      currentChatId, pendingReads, pc, turn, fetches, appended, now,
                      storeVars, srvVars>>
     ELSE LET currentInput == trim(input)
              userMessage == UserMessage(currentInput, selectedImages)
          IN  /\ Len(messages) < MaxMessages
              /\ messages' = Append(messages, userMessage)
              /\ input' = <<>>
              /\ selectedImages' = <<>>
              /\ isLoading' = TRUE
              /\ turn' = [busy |-> TRUE, userMessage |-> userMessage,
                          currentInput |-> currentInput,
                          selectedImages |-> selectedImages, messages |-> messages]
              /\ appended' = <<userMessage>>
              /\ IF RoutesToImageGeneration(currentInput, selectedImages)
                 THEN /\ isGeneratingImage' = TRUE
                      /\ fetches' = <<ImageFetch(currentInput)>>
                      /\ pc' = "awaitImage"
                 ELSE /\ isGeneratingImage' = isGeneratingImage
                      /\ fetches' = <<ChatFetch(messages, userMessage)>>
                      /\ pc' = "awaitChat"
              /\ UNCHANGED <<currentChatId, pendingReads, now, storeVars, srvVars>>

\* What a fetch() followed by response.json() gives the client: the relay's
\* JSON for some environment and upstream outcome, or an exception (the
\* network fails, or the body is no JSON).
NetworkError == [threw |-> TRUE]
ImageFetchResults(body) ==
  {NetworkError} \cup
  {[threw |-> FALSE, data |-> ImagePOST(env, body, up).json] :
     env \in Envs, up \in ImageOutcomes}
ChatFetchResults(body) ==
  {NetworkError} \cup
  {[threw |-> FALSE, data |-> ChatPOST(env, body, up).json] :
     env \in Envs, up \in ChatOutcomes}

\* if (data.success)
Succeeded(result) ==
  ~result.threw /\ Has(result.data, "success") /\ result.data.success

\* generateImage's return value: data.imageUrl, or null (here "")
generateImage(result) ==
  IF Succeeded(result) /\ Has(result.data, "imageUrl") THEN result.data.imageUrl ELSE ""

AssistantMessage(content) ==
  [id |-> now + 1, role |-> "assistant", content |-> content, timestamp |-> now]

ImageMessage(url, prompt) ==
  [id |-> now + 1, role |-> "assistant", content |-> ImageReplyText, timestamp |-> now,
   generatedImage |-> url, imagePrompt |-> prompt]

\* the log entry of the pending fetch, once it has resolved to result
Resolved(result) ==
  [fetches EXCEPT ![Len(fetches)] =
     [url |-> fetches[Len(fetches)].url, body |-> fetches[Len(fetches)].body,
      result |-> result]]

\* handleSubmit resumes after `await generateImage(currentInput)` (lines 302..326)
ImageResumes(result) ==
  /\ lastOp' = "other"
  /\ isGeneratingImage' = FALSE
  /\ LET generatedImageUrl == generateImage(result)
     IN  IF generatedImageUrl # ""
         THEN LET assistantMessage == ImageMessage(generatedImageUrl, turn.currentInput)
              IN  /\ messages' = Append(messages, assistantMessage)
                  /\ appended' = Append(appended, assistantMessage)
                  /\ isLoading' = FALSE
                  /\ pc' = "idle"
                  /\ turn' = IdleTurn
                  /\ fetches' = Resolved(result)
         ELSE LET fallbackMessage == AssistantMessage(ImageFallbackText)
              IN  /\ messages' = Append(messages, fallbackMessage)
                  /\ appended' = Append(appended, fallbackMessage)
                  /\ fetches' = Append(Resolved(result),
                                       ChatFetch(turn.messages, turn.userMessage))
                  /\ pc' = "awaitChat"
                  /\ UNCHANGED <<isLoading, turn>>
  /\ UNCHANGED <<input, selectedImages, currentChatId, pendingReads, now, storeVars, srvVars>>

\* variant: the catch block only logs
ChatResumesSilentOnFailure(result) ==
  /\ lastOp' = "other"
  /\ IF Succeeded(result)
     THEN /\ messages' = Append(messages, AssistantMessage(result.data.message))
          /\ appended' = Append(appended, AssistantMessage(result.data.message))
     ELSE UNCHANGED <<messages, appended>>
  /\ isLoading' = FALSE
  /\ pc' = "idle"
  /\ turn' = IdleTurn
  /\ fetches' = Resolved(result)
  /\ UNCHANGED <<input, isGeneratingImage, selectedImages, currentChatId, pendingReads,
                 now, storeVars, srvVars>>

\* variant: the finally block is missing
ChatResumesKeepingLoading(result) ==
  /\ lastOp' = "other"
  /\ LET reply == IF Succeeded(result)
                  THEN AssistantMessage(result.data.message)
                  ELSE AssistantMessage(ErrorReplyText)
     IN  /\ messages' = Append(messages, reply)
         /\ appended' = Append(appended, reply)
  /\ pc' = "idle"
  /\ turn' = IdleTurn
  /\ fetches' = Resolved(result)
  /\ UNCHANGED <<input, isLoading, isGeneratingImage, selectedImages, currentChatId,
                 pendingReads, now, storeVars, srvVars>>

\* handleSubmit resumes after the chat fetch (lines 344..368)
ChatResumes(result) ==
  /\ lastOp' = "other"
  /\ LET reply == IF Succeeded(result)
                  THEN AssistantMessage(result.data.message)
                  ELSE AssistantMessage(ErrorReplyText)
     IN  /\ messages' = Append(messages, reply)
         /\ appended' = Append(appended, reply)
  /\ isLoading' = FALSE
  /\ pc' = "idle"
  /\ turn' = IdleTurn
  /\ fetches' = Resolved(result)
  /\ UNCHANGED <<input, isGeneratingImage, selectedImages, currentChatId, pendingReads,
                 now, storeVars, srvVars>>

\* the fetch handleSubmit is suspended on
PendingFetch == fetches[Len(fetches)]

ImageResolves ==
  /\ pc = "awaitImage"
  /\ \E result \in ImageFetchResults(PendingFetch.body) : ImageResumes(result)

ChatResolves ==
  /\ pc = "awaitChat"
  /\ \E result \in ChatFetchResults(PendingFetch.body) : ChatResumes(result)

\* ------------------------------------------------------------------ relay as a process
\* messages a caller may put in a /api/chat request
ReqMessages ==
  { [role |-> "user", content |-> <<"h","i">>],
    [role |-> "user", content |-> <<"h","i">>, imageUrl |-> "data:1"],
    [role |-> "user", content |-> <<>>, imageUrls |-> <<"data:2", "data:3">>],
    [role |-> "user", content |-> <<"h","i">>, imageUrl |-> "data:1",
     imageUrls |-> <<"data:2">>],
    [role |-> "user", content |-> <<"h","i">>, imageUrl |-> "", imageUrls |-> <<>>],
    [role |-> "assistant", content |-> ReplyText],
    [role |-> "assistant", content |-> ReplyText, imageUrl |-> "data:1"] }

ReqMessageLists == UNION {[1..n -> ReqMessages] : n \in 0..MaxReqMsgs}

\* values of the messages property: undefined is left out by WithMessages
MessagesValues ==
  {JNull, JStr(<<"h","i">>), JNum(0), JObj} \cup {JArr(list) : list \in ReqMessageLists}
ResponseModeValues ==
  {JStr("detailed"), JStr("balanced"), JStr("concise"), JStr("verbose"), JNull, JNum(1)}
PromptValues ==
  {JNull, JStr(<<>>), JStr(<<"a"," ","c","a","t">>), JNum(0), JNum(7), JArr(<<>>), JObj}

ChatBodies ==
  {[parse |-> "invalid"], [parse |-> "null"], [parse |-> "ok"]}
  \cup {[parse |-> "ok", messages |-> m] : m \in MessagesValues}
  \cup {[parse |-> "ok", responseMode |-> r] : r \in ResponseModeValues}
  \cup {[parse |-> "ok", messages |-> m, responseMode |-> r] :
          m \in MessagesValues, r \in ResponseModeValues}
ImageBodies ==
  {[parse |-> "invalid"], [parse |-> "null"], [parse |-> "ok"]}
  \cup {[parse |-> "ok", prompt |-> v] : v \in PromptValues}

Requests ==
  {[endpoint |-> "/api/chat", env |-> env, body |-> body] :
     env \in Envs, body \in ChatBodies}
  \cup {[endpoint |-> "/api/generate-image", env |-> env, body |-> body] :
          env \in Envs, body \in ImageBodies}

SrvInit ==
  /\ srvReq \in {<<r>> : r \in Requests}
  /\ srvPc = "received"
  /\ srvCalls = <<>>
  /\ srvUp = <<>>
  /\ srvResp = <<>>

\* a handler runs until it returns or awaits the upstream provider
Handled(h) ==
  IF Has(h, "resp")
  THEN /\ srvResp' = <<h.resp>>
       /\ srvPc' = "responded"
       /\ UNCHANGED srvCalls
  ELSE /\ srvCalls' = <<h.call>>
       /\ srvPc' = "upstream"
       /\ UNCHANGED srvResp

ChatRouteReceives ==
  /\ srvPc = "received"
  /\ srvReq[1].endpoint = "/api/chat"
  /\ Handled(ChatHandle(srvReq[1].env, srvReq[1].body))
  /\ UNCHANGED <<srvReq, srvUp, clientVars>>

ChatRouteResumes ==
  /\ srvPc = "upstream"
  /\ srvReq[1].endpoint = "/api/chat"
  /\ \E up \in ChatOutcomes :
       /\ srvUp' = <<up>>
       /\ srvResp' = <<ChatComplete(up)>>
  /\ srvPc' = "responded"
  /\ UNCHANGED <<srvReq, srvCalls, clientVars>>

ImageRouteReceives ==
  /\ srvPc = "received"
  /\ srvReq[1].endpoint = "/api/generate-image"
  /\ Handled(ImageHandle(srvReq[1].env, srvReq[1].body))
  /\ UNCHANGED <<srvReq, srvUp, clientVars>>

ImageRouteResumes ==
  /\ srvPc = "upstream"
  /\ srvReq[1].endpoint = "/api/generate-image"
  /\ \E up \in ImageOutcomes :
       /\ srvUp' = <<up>>
       /\ srvResp' = <<ImageComplete(srvCalls[1].prompt, up)>>
  /\ srvPc' = "responded"
  /\ UNCHANGED <<srvReq, srvCalls, clientVars>>

\* ------------------------------------------------------------------ specifications
Init == ClientInit /\ SrvIdle

Next ==
  \/ Tick
  \/ \E text \in InputTexts : SetInput(text)
  \/ \E files \in FileLists : WithinCap(files, MaxPicked) /\ handleImageUpload(files)
  \/ \E file \in Files : WithinCap(<<file>>, MaxPicked) /\ handlePaste(file)
  \/ \E i \in 1..MaxPicked : ReaderOnload(i)
  \/ \E i \in 1..MaxPicked : removeImage(i)
  \/ removeAllImages
  \/ startNewChat
  \/ \E confirmed \in BOOLEAN : clearCurrentChat(confirmed)
  \/ handleSubmit
  \/ ImageResolves
  \/ ChatResolves

Spec == Init /\ [][Next]_vars

\* the two relay handlers, each on one request of any shape
InitRelay == ClientInit /\ SrvInit

NextRelay ==
  \/ ChatRouteReceives
  \/ ChatRouteResumes
  \/ ImageRouteReceives
  \/ ImageRouteResumes

SpecRelay == InitRelay /\ [][NextRelay]_vars

\* one submission of any short text, with or without an attached image
IntentAlphabet == {"a", "r", "t", "A", "T", "e", " "}
IntentSamples ==
  { <<"g","e","n","e","r","a","t","e"," ","i","m","a","g","e"," ","o","f"," ","a"," ","c","a","t">>,
    <<" ","D","r","a","w"," ","a"," ","c","a","t"," ">>,
    <<"s","t","a","t","e"," ","o","f"," ","t","h","e"," ","A","R","T">>,
    <<"E","S","B","O","Ç","O">>,
    <<"F","a","ç","a"," ","u","m"," ","d","e","s","e","n","h","o">>,
    <<"p","a","r","t","y">>,
    <<"h","i">> }
IntentTexts == IntentSamples \cup UNION {[1..n -> IntentAlphabet] : n \in 0..MaxLen}

InitIntent ==
  /\ messages = <<>>
  /\ input \in IntentTexts
  /\ isLoading = FALSE
  /\ isGeneratingImage = FALSE
  /\ selectedImages \in {<<>>, <<GoodFile.url>>}
  /\ currentChatId = <<>>
  /\ pendingReads = <<>>
  /\ pc = "idle"
  /\ turn = IdleTurn
  /\ fetches = <<>>
  /\ appended = <<>>
  /\ now = 1
  /\ lastOp = "other"
  /\ savedChats = <<>>
  /\ showSaveDialog = FALSE
  /\ chatTitle = <<>>
  /\ store = StoreAbsent
  /\ SrvIdle

NextIntent == handleSubmit

SpecIntent == InitIntent /\ [][NextIntent]_vars

\* ------------------------------------------------------------------ claims: client
\* the latest accepted submission has run to its end
TurnResolved == pc = "idle" /\ appended # <<>>

\* the relay answered the fetch with success: true
AnsweredSuccess(fetch) ==
  /\ Has(fetch, "result")
  /\ ~fetch.result.threw
  /\ Has(fetch.result.data, "success")
  /\ fetch.result.data.success = TRUE

\* msg is what answers the chat fetch: the relay's reply, or the local error text
AnswersChat(fetch, msg) ==
  /\ fetch.url = "/api/chat"
  /\ msg.role = "assistant"
  /\ msg.content = (IF AnsweredSuccess(fetch) THEN fetch.result.data.message
                    ELSE ErrorReplyText)

\* C1 as stated: once a submission has resolved, handleSubmit has added one
\* user message followed by one assistant message, on every path.
C1_OneUserOneAssistant ==
  TurnResolved =>
    /\ Len(appended) = 2
    /\ appended[1].role = "user"
    /\ appended[2].role = "assistant"

\* C1 amended: once a submission has resolved, handleSubmit has appended one
\* user message and then one assistant message (the reply, or the local error
\* text), except when the turn went to image generation and that failed: then
\* it has appended the user message, the image-failure notice and then the
\* assistant message that answers the chat fetch.
C1_AppendsPerTurn ==
  TurnResolved =>
    /\ appended[1].role = "user"
    /\ IF fetches[1].url = "/api/generate-image" /\ ~AnsweredSuccess(fetches[1])
       THEN /\ Len(appended) = 3
            /\ appended[2].role = "assistant"
            /\ appended[2].content = ImageFallbackText
            /\ Len(fetches) = 2
            /\ AnswersChat(fetches[2], appended[3])
       ELSE /\ Len(appended) = 2
            /\ Len(fetches) = 1
            /\ IF fetches[1].url = "/api/generate-image"
               THEN /\ appended[2].role = "assistant"
                    /\ Has(appended[2], "generatedImage")
               ELSE AnswersChat(fetches[1], appended[2])

\* a turn sent to image generation has failed there and was then answered by chat
C1_Witness ==
  /\ TurnResolved
  /\ Len(appended) = 3
  /\ AnsweredSuccess(fetches[2])

AllWhiteSpace(text) == \A i \in 1..Len(text) : text[i] \in WhiteSpace

\* C2: a handleSubmit that runs while isLoading is true, or with a text that is
\* empty after trimming and no selected image, changes neither the messages,
\* the input, the selected images nor the in-flight flag, and makes no fetch.
C2_RejectedSubmitIsNoOp ==
  [][ (/\ lastOp' = "handleSubmit"
       /\ (isLoading \/ (AllWhiteSpace(input) /\ selectedImages = <<>>)))
      => UNCHANGED <<messages, input, selectedImages, isLoading, isGeneratingImage,
                     fetches, pc>> ]_vars

\* handleSubmit has just run during a flight, with an image selected
C2_Witness ==
  /\ lastOp = "handleSubmit"
  /\ isLoading
  /\ Len(selectedImages) > 0
  /\ pc = "awaitChat"

\* two characters that differ at most in case
SameLetter(a, b) ==
  \/ a = b
  \/ \E i \in 1..Len(UpperChars) : {a, b} = {UpperChars[i], LowerChars[i]}

\* text contains a keyword of the list, whatever the case of its letters
ContainsKeyword(text) ==
  \E k \in 1..Len(imageKeywords) :
    \E off \in 0..(Len(text) - Len(imageKeywords[k])) :
      \A j \in 1..Len(imageKeywords[k]) : SameLetter(text[off + j], imageKeywords[k][j])

\* C3: a turn with a keyword and no image calls /api/generate-image with the
\* submitted text as prompt; when that succeeds, one assistant message with the
\* returned URL as generatedImage and the submitted text as imagePrompt is
\* appended, and /api/chat is not called for the turn.
C3_ImageTurn ==
  (/\ appended # <<>>
   /\ ContainsKeyword(appended[1].content)
   /\ ~Has(appended[1], "imageUrls"))
  => /\ fetches[1].url = "/api/generate-image"
     /\ fetches[1].body = [parse |-> "ok", prompt |-> JStr(appended[1].content)]
     /\ AnsweredSuccess(fetches[1]) =>
          /\ pc = "idle"
          /\ Len(fetches) = 1
          /\ Len(appended) = 2
          /\ appended[2].role = "assistant"
          /\ Has(appended[2], "generatedImage")
          /\ appended[2].generatedImage = fetches[1].result.data.imageUrl
          /\ Has(appended[2], "imagePrompt")
          /\ appended[2].imagePrompt = appended[1].content

\* the image relay has answered a turn typed with capitals and spaces around it
C3_Witness ==
  /\ TurnResolved
  /\ appended[1].content = <<"D","r","a","w"," ","a"," ","c","a","t">>
  /\ AnsweredSuccess(fetches[1])
  /\ fetches[1].url = "/api/generate-image"

\* C4: a submitted turn is routed to image generation exactly when its text
\* contains a keyword, in any case, and it has no attached image.
C4_RoutingDecision ==
  appended # <<>> =>
    ( fetches[1].url = "/api/generate-image"
      <=> (ContainsKeyword(appended[1].content) /\ ~Has(appended[1], "imageUrls")) )

\* a keyword typed in mixed case, without an image, went to image generation
C4_Witness ==
  /\ appended # <<>>
  /\ appended[1].content = <<"A","r","T">>
  /\ fetches[1].url = "/api/generate-image"

\* ------------------------------------------------------------------ claims: relay
Responded == srvPc = "responded"
Req == srvReq[1]
Resp == srvResp[1]

\* C5: without OPENAI_API_KEY both handlers answer 500 with
\* {success: false, error: <configuration error>} whatever the body, and the
\* upstream provider is not called.
C5_MissingCredential ==
  (srvPc # "idle" /\ ~Has(Req.env, "OPENAI_API_KEY"))
  => /\ srvCalls = <<>>
     /\ srvPc # "upstream"
     /\ Responded =>
          Resp = [status |-> 500,
                  json |-> [success |-> FALSE, error |-> "OpenAI API key not configured"]]

\* a request that is not even JSON was answered without the credential
C5_Witness ==
  /\ Responded
  /\ ~Has(Req.env, "OPENAI_API_KEY")
  /\ Req.body.parse = "invalid"

IsFailureEnvelope(json) ==
  /\ DOMAIN json = {"success", "error"}
  /\ json.success = FALSE

\* C6 as stated: every response with a non-2xx status has a body
\* {success: false, error: string}, and every response with a 2xx status has
\* success: true.
C6_UniformEnvelope ==
  Responded =>
    IF Resp.status \in 200..299
    THEN Has(Resp.json, "success") /\ Resp.json.success = TRUE
    ELSE IsFailureEnvelope(Resp.json)

\* C7 as stated, for the bodies that are JSON: with the credential set, a
\* /api/chat request without an array of messages, and a /api/generate-image
\* request without a non-empty string prompt, is answered 4xx and causes no
\* upstream call.
LacksMessageList(body) ==
  \/ body.parse = "null"
  \/ ~Has(body, "messages")
  \/ body.messages.t # "array"
LacksPrompt(body) ==
  \/ body.parse = "null"
  \/ ~Has(body, "prompt")
  \/ body.prompt.t # "string"
  \/ body.prompt.v = <<>>
C7_MalformedIsClientError ==
  (/\ srvPc # "idle"
   /\ Has(Req.env, "OPENAI_API_KEY") /\ Req.env.OPENAI_API_KEY # ""
   /\ Req.body.parse # "invalid"
   /\ IF Req.endpoint = "/api/chat" THEN LacksMessageList(Req.body)
      ELSE LacksPrompt(Req.body))
  => /\ srvCalls = <<>>
     /\ Responded => Resp.status \in 400..499

\* the provider rejected the call, or answered an image call without a URL
UpstreamFailed ==
  /\ srvUp # <<>>
  /\ \/ ~srvUp[1].ok
     \/ /\ Req.endpoint = "/api/generate-image"
        /\ \/ ~Has(srvUp[1], "data")
           \/ srvUp[1].data = <<>>
           \/ ~Has(srvUp[1].data[1], "url")
           \/ srvUp[1].data[1].url = ""

\* C8: after an upstream failure the handler answers 500 with success: false
\* and one fixed error string per endpoint, whatever the failure was.
C8_GenericUpstreamFailure ==
  (Responded /\ UpstreamFailed)
  => Resp = [status |-> 500,
             json |-> [success |-> FALSE,
                       error |-> IF Req.endpoint = "/api/chat"
                                 THEN "Failed to get response from OpenAI"
                                 ELSE "Failed to generate image with DALL-E"]]

\* the chat provider timed out
C8_Witness ==
  /\ Responded
  /\ Req.endpoint = "/api/chat"
  /\ srvUp # <<>>
  /\ ~srvUp[1].ok
  /\ srvUp[1].detail = "ETIMEDOUT"

ChatCalled == srvCalls # <<>> /\ Req.endpoint = "/api/chat"

\* C9: the upstream call carries 3000 and 0.8 for detailed, 2000 and 0.7 for
\* balanced, 1000 and 0.6 for concise, and the detailed values when the request
\* has no responseMode (temperature in tenths).
C9_ModeParameters ==
  ChatCalled =>
    LET mode == IF Has(Req.body, "responseMode") THEN Req.body.responseMode.v
                ELSE "detailed"
        sent == <<srvCalls[1].max_tokens, srvCalls[1].temperature>>
    IN  /\ mode = "detailed" => sent = <<3000, 8>>
        /\ mode = "balanced" => sent = <<2000, 7>>
        /\ mode = "concise" => sent = <<1000, 6>>

\* a request without responseMode reached the provider
C9_Witness ==
  /\ ChatCalled
  /\ ~Has(Req.body, "responseMode")
  /\ Len(Req.body.messages.v) > 0

\* the image references of a message, in the order they are forwarded
References(msg) ==
  (IF Has(msg, "imageUrl") /\ msg.imageUrl # "" THEN <<msg.imageUrl>> ELSE <<>>)
  \o (IF Has(msg, "imageUrls") THEN msg.imageUrls ELSE <<>>)

\* fwd is a block of one text part and one image part per reference of msg
IsMultiPart(fwd, msg) ==
  /\ fwd.content.t = "array"
  /\ Len(fwd.content.v) = 1 + Len(References(msg))
  /\ fwd.content.v[1].type = "text"
  /\ \A j \in 1..Len(References(msg)) :
       fwd.content.v[j + 1] =
         [type |-> "image_url", image_url |-> [url |-> References(msg)[j]]]

PassedThrough(fwd, msg) == fwd = [role |-> msg.role, content |-> JStr(msg.content)]

\* the request's i-th message and what the provider got for it (after the
\* system message)
Sent(i) == Req.body.messages.v[i]
Forwarded(i) == srvCalls[1].messages[i + 1]

VisionModelIffImages ==
  /\ srvCalls[1].model \in {"gpt-4o", "gpt-4"}
  /\ srvCalls[1].model = "gpt-4o"
       <=> \E i \in 1..Len(Req.body.messages.v) : References(Sent(i)) # <<>>

\* C10 as stated: the vision model is chosen exactly when some message carries
\* an image reference; every message with image references is forwarded as a
\* multi-part block, every other message with its role and text unchanged.
C10_EveryImageMessageMultiPart ==
  ChatCalled =>
    /\ VisionModelIffImages
    /\ Len(srvCalls[1].messages) = Len(Req.body.messages.v) + 1
    /\ \A i \in 1..Len(Req.body.messages.v) :
         IF References(Sent(i)) # <<>>
         THEN IsMultiPart(Forwarded(i), Sent(i))
         ELSE PassedThrough(Forwarded(i), Sent(i))

\* C10 amended: the vision model is chosen exactly when some message carries an
\* image reference; every user message with image references is forwarded as a
\* multi-part block; every other message, an assistant message with image
\* references included, is forwarded with its role and text only.
C10_UserImageMessagesMultiPart ==
  ChatCalled =>
    /\ VisionModelIffImages
    /\ Len(srvCalls[1].messages) = Len(Req.body.messages.v) + 1
    /\ \A i \in 1..Len(Req.body.messages.v) :
         IF References(Sent(i)) # <<>> /\ Sent(i).role = "user"
         THEN Forwarded(i).role = "user" /\ IsMultiPart(Forwarded(i), Sent(i))
         ELSE PassedThrough(Forwarded(i), Sent(i))

\* a list with an assistant message that carries an image, and no other image
C10_Witness ==
  /\ ChatCalled
  /\ Len(Req.body.messages.v) = 2
  /\ Sent(1).role = "user" /\ References(Sent(1)) = <<>>
  /\ Sent(2).role = "assistant" /\ References(Sent(2)) # <<>>

\* ------------------------------------------------------------------ saved conversations
\* A Date is its time value in milliseconds; an Invalid Date has time value NaN.
InvalidDate == -1

\* variant: the milliseconds are not written
toISOStringSeconds(date) == [sec |-> date \div 1000, ms |-> 0]

\* Date.prototype.toISOString(): "YYYY-MM-DDTHH:mm:ss.sssZ", kept as the whole
\* seconds since the epoch and the milliseconds of the ".sss" part
toISOString(date) == [sec |-> date \div 1000, ms |-> date % 1000]

\* Date.prototype.toJSON(), which JSON.stringify calls: null for an Invalid Date
DateToJSON(date) == IF date = InvalidDate THEN JNull ELSE JStr(toISOString(date))

\* A JSON object is a record without the field t of the other JSON values.
IsObject(value) == ~Has(value, "t")
IsArray(value) == Has(value, "t") /\ value.t = "array"

\* new Date(value) for a JSON value; absent stands for undefined
NewDate(obj, field) ==
  IF ~Has(obj, field) THEN InvalidDate
  ELSE LET value == obj[field]
       IN  CASE IsObject(value) -> InvalidDate
             [] value.t = "null" -> 0
             [] value.t = "number" -> value.v
             [] value.t = "string" -> value.v.sec * 1000 + value.v.ms
             [] OTHER -> InvalidDate

\* JSON.stringify of one Message, of one SavedChat, of the array of them
StringifyMessage(msg) ==
  [f \in DOMAIN msg |-> IF f = "timestamp" THEN DateToJSON(msg.timestamp) ELSE msg[f]]
StringifyChat(chat) ==
  [f \in DOMAIN chat |->
     CASE f \in {"createdAt", "updatedAt"} -> DateToJSON(chat[f])
       [] f = "messages" ->
            JArr([i \in 1..Len(chat.messages) |-> StringifyMessage(chat.messages[i])])
       [] OTHER -> chat[f]]
StringifyChats(chats) ==
  JArr([i \in 1..Len(chats) |-> StringifyChat(chats[i])])

\* localStorage.setItem('savedChats', JSON.stringify(updatedChats)); the write
\* is taken to succeed
StoreWritten(chats) == [present |-> TRUE, parse |-> "ok", value |-> StringifyChats(chats)]

\* lines 66..69: msg.timestamp throws for null
MessageThrows(msg) == msg = JNull
ReviveMessage(msg) ==
  IF IsObject(msg)
  THEN [f \in DOMAIN msg \cup {"timestamp"} |->
          IF f = "timestamp" THEN NewDate(msg, "timestamp") ELSE msg[f]]
  ELSE [timestamp |-> InvalidDate]

\* lines 62..70 for one element of the parsed array: chat.createdAt throws
\* for null, chat.messages.map throws unless chat.messages is an array
ChatThrows(chat) ==
  \/ chat = JNull
  \/ ~IsObject(chat)
  \/ ~Has(chat, "messages")
  \/ ~IsArray(chat.messages)
  \/ \E i \in 1..Len(chat.messages.v) : MessageThrows(chat.messages.v[i])
ReviveChat(chat) ==
  [f \in DOMAIN chat \cup {"createdAt", "updatedAt", "messages"} |->
     CASE f = "createdAt" -> NewDate(chat, "createdAt")
       [] f = "updatedAt" -> NewDate(chat, "updatedAt")
       [] f = "messages" ->
            [i \in 1..Len(chat.messages.v) |-> ReviveMessage(chat.messages.v[i])]
       [] OTHER -> chat[f]]

\* `if (saved)`: the entry exists and is not the empty string
StoreTruthy(st) == st.present /\ st.parse # "empty"

\* JSON.parse(saved).map(...) throws
LoadThrows(st) ==
  \/ st.parse = "invalid"
  \/ ~IsArray(st.value)
  \/ \E i \in 1..Len(st.value.v) : ChatThrows(st.value.v[i])

\* the effect of lines 58..76: what setSavedChats receives, or the initial []
LoadSavedChats(st) ==
  IF ~StoreTruthy(st) \/ LoadThrows(st) THEN <<>>
  ELSE [i \in 1..Len(st.value.v) |-> ReviveChat(st.value.v[i])]

\* Date.prototype.toLocaleDateString(): one token per calendar day
toLocaleDateString(date) == <<ToString(date \div 86400000)>>

\* String.prototype.slice(0, n)
slice(text, n) == SubSeq(text, 1, IF Len(text) < n THEN Len(text) ELSE n)

\* messages.find(msg => msg.role === 'user'): its index, 0 when there is none
FirstUserIndex(msgs) ==
  IF \E i \in 1..Len(msgs) : msgs[i].role = "user"
  THEN CHOOSE i \in 1..Len(msgs) :
         /\ msgs[i].role = "user"
         /\ \A j \in 1..(i - 1) : msgs[j].role # "user"
  ELSE 0

ConversaPrefix == <<"C","o","n","v","e","r","s","a"," ">>

\* variant: an empty first user message is used as the title
generateChatTitleOfAnyText(msgs, date) ==
  IF FirstUserIndex(msgs) # 0
  THEN LET content == msgs[FirstUserIndex(msgs)].content
       IN  slice(content, 50) \o (IF Len(content) > 50 THEN <<".", ".", ".">> ELSE <<>>)
  ELSE ConversaPrefix \o toLocaleDateString(date)

generateChatTitle(msgs, date) ==
  IF FirstUserIndex(msgs) # 0 /\ msgs[FirstUserIndex(msgs)].content # <<>>
  THEN LET content == msgs[FirstUserIndex(msgs)].content
       IN  slice(content, 50) \o (IF Len(content) > 50 THEN <<".", ".", ".">> ELSE <<>>)
  ELSE ConversaPrefix \o toLocaleDateString(date)

\* { ...obj, ...over }
Spread(obj, over) ==
  [f \in DOMAIN obj \cup DOMAIN over |-> IF f \in DOMAIN over THEN over[f] ELSE obj[f]]

\* the Salvar button of the sidebar, disabled={messages.length === 0}
OpenSaveDialog ==
  /\ Len(messages) > 0
  /\ showSaveDialog' = TRUE
  /\ lastOp' = "other"
  /\ UNCHANGED <<messages, input, isLoading, isGeneratingImage, selectedImages,
                 currentChatId, pendingReads, pc, turn, fetches, appended, now,
                 savedChats, chatTitle, store, srvVars>>

\* the Cancelar button of the dialog
CancelSaveDialog ==
  /\ showSaveDialog
  /\ showSaveDialog' = FALSE
  /\ lastOp' = "other"
  /\ UNCHANGED <<messages, input, isLoading, isGeneratingImage, selectedImages,
                 currentChatId, pendingReads, pc, turn, fetches, appended, now,
                 savedChats, chatTitle, store, srvVars>>

\* onChange={(e) => setChatTitle(e.target.value)}
SetChatTitle(text) ==
  /\ showSaveDialog
  /\ chatTitle' = text
  /\ lastOp' = "other"
  /\ UNCHANGED <<messages, input, isLoading, isGeneratingImage, selectedImages,
                 currentChatId, pendingReads, pc, turn, fetches, appended, now,
                 savedChats, showSaveDialog, store, srvVars>>

\* chatTitle.trim() || generateChatTitle(messages)
SaveTitle ==
  IF trim(chatTitle) # <<>> THEN trim(chatTitle) ELSE generateChatTitle(messages, now)

\* the SavedChat saveChat builds when no conversation is active
NewChat ==
  [id |-> now, title |-> SaveTitle, messages |-> messages, createdAt |-> now,
   updatedAt |-> now]

\* variant: a save in place stamps the conversation anew
UpdatedInPlaceRestamped ==
  [i \in 1..Len(savedChats) |->
     IF savedChats[i].id = currentChatId[1]
     THEN Spread(savedChats[i],
                 [title |-> SaveTitle, messages |-> messages, createdAt |-> now,
                  updatedAt |-> now])
     ELSE savedChats[i]]

\* savedChats.map(...) of lines 214..218
UpdatedInPlace ==
  [i \in 1..Len(savedChats) |->
     IF savedChats[i].id = currentChatId[1]
     THEN Spread(savedChats[i],
                 [title |-> SaveTitle, messages |-> messages, updatedAt |-> now])
     ELSE savedChats[i]]

\* alert() of lines 204 and 237 blocks until the user dismisses it: time has
\* passed when saveChat returns
AlertDismissed ==
  /\ now <= MaxSaved + 1
  /\ now' = now + 1

\* the button of the save dialog
saveChat ==
  /\ showSaveDialog
  /\ lastOp' = "saveChat"
  /\ IF Len(messages) = 0
     THEN UNCHANGED <<savedChats, currentChatId, store, showSaveDialog, chatTitle>>
     ELSE /\ IF currentChatId # <<>>
             THEN /\ savedChats' = UpdatedInPlace
                  /\ UNCHANGED currentChatId
             ELSE /\ Len(savedChats) < MaxSaved
                  /\ savedChats' = Append(savedChats, NewChat)
                  /\ currentChatId' = <<NewChat.id>>
          /\ store' = StoreWritten(savedChats')
          /\ showSaveDialog' = FALSE
          /\ chatTitle' = <<>>
  /\ AlertDismissed
  /\ UNCHANGED <<messages, input, isLoading, isGeneratingImage, selectedImages,
                 pendingReads, pc, turn, fetches, appended, srvVars>>

\* a click on the i-th entry of the sidebar
loadChat(i) ==
  /\ i \in 1..Len(savedChats)
  /\ messages' = savedChats[i].messages
  /\ currentChatId' = <<savedChats[i].id>>
  /\ lastOp' = "other"
  /\ UNCHANGED <<input, isLoading, isGeneratingImage, selectedImages, pendingReads,
                 pc, turn, fetches, appended, now, storeVars, srvVars>>

\* variant: the filter also drops the last conversation
WithoutIdOrLast(chats, chatId) ==
  SelectSeq(SubSeq(chats, 1, Len(chats) - 1), LAMBDA chat : chat.id # chatId)

\* savedChats.filter(chat => chat.id !== chatId)
WithoutId(chats, chatId) == SelectSeq(chats, LAMBDA chat : chat.id # chatId)

\* variant: the active conversation is kept when it is the one deleted
deleteChatKeepingActive(i, confirmed) ==
  /\ i \in 1..Len(savedChats)
  /\ lastOp' = IF confirmed THEN "deleteChat" ELSE "other"
  /\ IF confirmed
     THEN /\ savedChats' = WithoutId(savedChats, savedChats[i].id)
          /\ store' = StoreWritten(savedChats')
     ELSE UNCHANGED <<savedChats, store>>
  /\ UNCHANGED <<messages, selectedImages, input, currentChatId, isLoading,
                 isGeneratingImage, pendingReads, pc, turn, fetches, appended, now,
                 showSaveDialog, chatTitle, srvVars>>

\* the trash button of the i-th entry; confirmed is confirm()'s answer
deleteChat(i, confirmed) ==
  /\ i \in 1..Len(savedChats)
  /\ lastOp' = IF confirmed THEN "deleteChat" ELSE "other"
  /\ LET chatId == savedChats[i].id
     IN  IF confirmed
         THEN /\ savedChats' = WithoutId(savedChats, chatId)
              /\ store' = StoreWritten(savedChats')
              /\ IF currentChatId = <<chatId>>
                 THEN /\ messages' = <<>>
                      /\ selectedImages' = <<>>
                      /\ input' = <<>>
                      /\ currentChatId' = <<>>
                 ELSE UNCHANGED <<messages, selectedImages, input, currentChatId>>
         ELSE UNCHANGED <<savedChats, store, messages, selectedImages, input,
                          currentChatId>>
  /\ UNCHANGED <<isLoading, isGeneratingImage, pendingReads, pc, turn, fetches,
                 appended, now, showSaveDialog, chatTitle, srvVars>>

\* the page is loaded again: every useState starts over and the effect of
\* lines 58..76 reads the store
Mount ==
  /\ messages' = <<>>
  /\ input' = <<>>
  /\ isLoading' = FALSE
  /\ isGeneratingImage' = FALSE
  /\ selectedImages' = <<>>
  /\ currentChatId' = <<>>
  /\ pendingReads' = <<>>
  /\ pc' = "idle"
  /\ turn' = IdleTurn
  /\ fetches' = <<>>
  /\ appended' = <<>>
  /\ lastOp' = "mount"
  /\ showSaveDialog' = FALSE
  /\ chatTitle' = <<>>
  /\ savedChats' = LoadSavedChats(store)
  /\ UNCHANGED <<now, store, srvVars>>

\* ------------------------------------------------------------------ specifications of saving
\* what the chat fetch of these turns resolves to: a network failure, or the
\* relay's answer to a reply of the provider
StoreResults(body) ==
  {NetworkError,
   [threw |-> FALSE,
    data |-> ChatPOST(EnvWithKey, body, [ok |-> TRUE, choices |-> <<[content |-> ReplyText]>>]).json]}

ChatResolvesInStore ==
  /\ pc = "awaitChat"
  /\ \E result \in StoreResults(PendingFetch.body) : ChatResumes(result)

\* a text of n characters that names no image keyword
LongText(n) == [i \in 1..n |-> IF i > 50 THEN "y" ELSE "x"]
TitleTexts == {<<>>, <<"h","i">>} \cup {LongText(n) : n \in 49..(50 + MaxOver)}

\* conversations of one turn, on any of the texts, saved while and after
\* the turn runs
InitTitle ==
  /\ messages = <<>>
  /\ input \in TitleTexts
  /\ isLoading = FALSE
  /\ isGeneratingImage = FALSE
  /\ selectedImages \in {<<>>, <<GoodFile.url>>}
  /\ currentChatId = <<>>
  /\ pendingReads = <<>>
  /\ pc = "idle"
  /\ turn = IdleTurn
  /\ fetches = <<>>
  /\ appended = <<>>
  /\ now = 1
  /\ lastOp = "other"
  /\ savedChats = <<>>
  /\ showSaveDialog = FALSE
  /\ chatTitle = <<>>
  /\ store = StoreAbsent
  /\ SrvIdle

\* what is typed into the title field of the save dialog
DialogTitles == {<<>>, <<" ">>, <<"t">>}

NextTitle ==
  \/ handleSubmit
  \/ ChatResolvesInStore
  \/ startNewChat
  \/ OpenSaveDialog
  \/ CancelSaveDialog
  \/ \E text \in DialogTitles : SetChatTitle(text)
  \/ saveChat

SpecTitle == InitTitle /\ [][NextTitle]_vars

\* Saving, loading and deleting conversations of one turn, from an empty
\* store.  The title is left to generateChatTitle, and the conversation is
\* left, loaded, deleted or the page reloaded between exchanges (Spec takes
\* such steps during an exchange).
StoreTexts == {<<"h","i">>}

NextStore ==
  \/ \E text \in StoreTexts : SetInput(text)
  \/ handleSubmit
  \/ ChatResolvesInStore
  \/ pc = "idle" /\ startNewChat
  \/ pc = "idle" /\ \E confirmed \in BOOLEAN : clearCurrentChat(confirmed)
  \/ OpenSaveDialog
  \/ saveChat
  \/ pc = "idle" /\ \E i \in 1..MaxSaved : loadChat(i)
  \/ pc = "idle" /\ \E i \in 1..MaxSaved, confirmed \in BOOLEAN : deleteChat(i, confirmed)
  \/ pc = "idle" /\ Mount

SpecStore == Init /\ [][NextStore]_vars

\* what the entry 'savedChats' may hold when the page is first loaded
StoreSamples ==
  { StoreAbsent,
    [present |-> TRUE, parse |-> "empty"],
    [present |-> TRUE, parse |-> "invalid"],
    [present |-> TRUE, parse |-> "ok", value |-> JNull],
    [present |-> TRUE, parse |-> "ok", value |-> JNum(7)],
    [present |-> TRUE, parse |-> "ok", value |-> JStr("x")],
    [present |-> TRUE, parse |-> "ok", value |-> JObj],
    [present |-> TRUE, parse |-> "ok", value |-> JArr(<<>>)],
    [present |-> TRUE, parse |-> "ok", value |-> JArr(<<JNull>>)],
    [present |-> TRUE, parse |-> "ok", value |-> JArr(<<JNum(7)>>)],
    [present |-> TRUE, parse |-> "ok", value |-> JArr(<<[id |-> 0, title |-> <<"t">>]>>)],
    [present |-> TRUE, parse |-> "ok",
     value |-> JArr(<<[id |-> 0, title |-> <<"t">>, messages |-> JNull]>>)],
    [present |-> TRUE, parse |-> "ok",
     value |-> JArr(<<[id |-> 0, title |-> <<"t">>, messages |-> JArr(<<JNull>>)]>>)],
    [present |-> TRUE, parse |-> "ok",
     value |-> JArr(<<[id |-> 0, title |-> <<"t">>, messages |-> JArr(<<>>)]>>)] }

\* the page is first loaded on any of these entries; a turn, a save, a
\* reload follow
InitMount ==
  /\ store \in StoreSamples
  /\ savedChats = LoadSavedChats(store)
  /\ messages = <<>>
  /\ input = <<>>
  /\ isLoading = FALSE
  /\ isGeneratingImage = FALSE
  /\ selectedImages = <<>>
  /\ currentChatId = <<>>
  /\ pendingReads = <<>>
  /\ pc = "idle"
  /\ turn = IdleTurn
  /\ fetches = <<>>
  /\ appended = <<>>
  /\ now = 1
  /\ lastOp = "other"
  /\ showSaveDialog = FALSE
  /\ chatTitle = <<>>
  /\ SrvIdle

NextMount ==
  \/ \E text \in StoreTexts : SetInput(text)
  \/ handleSubmit
  \/ ChatResolvesInStore
  \/ OpenSaveDialog
  \/ saveChat
  \/ pc = "idle" /\ \E i \in 1..MaxSaved : loadChat(i)
  \/ pc = "idle" /\ Mount

SpecMount == InitMount /\ [][NextMount]_vars

\* The client under the assumption that every fetch() settles: a suspended
\* handleSubmit is eventually resumed.  The steps are those of Spec at one
\* reading of the clock.
NextLive ==
  \/ \E text \in InputTexts : SetInput(text)
  \/ \E files \in FileLists : WithinCap(files, MaxPicked) /\ handleImageUpload(files)
  \/ \E file \in Files : WithinCap(<<file>>, MaxPicked) /\ handlePaste(file)
  \/ \E i \in 1..MaxPicked : ReaderOnload(i)
  \/ \E i \in 1..MaxPicked : removeImage(i)
  \/ removeAllImages
  \/ startNewChat
  \/ \E confirmed \in BOOLEAN : clearCurrentChat(confirmed)
  \/ handleSubmit
  \/ ImageResolves
  \/ ChatResolves

SpecLive ==
  Init /\ [][NextLive]_vars /\ WF_vars(ImageResolves) /\ WF_vars(ChatResolves)

\* selecting, pasting and removing images, up to MaxExtra more than the five
\* that processImageFile allows
OtherFile == [size |-> 2048, type |-> <<"image", "jpeg">>, url |-> "data:image/jpeg;base64,BB"]
PickFiles == {GoodFile, OtherFile, BigFile, TextFile}
PickLists ==
  {<<f>> : f \in PickFiles} \cup {<<f, g>> : f \in {GoodFile}, g \in PickFiles}

NextPick ==
  \/ \E files \in PickLists : WithinCap(files, 5 + MaxExtra) /\ handleImageUpload(files)
  \/ \E file \in PickFiles : WithinCap(<<file>>, 5 + MaxExtra) /\ handlePaste(file)
  \/ \E i \in 1..(5 + MaxExtra) : ReaderOnload(i)
  \/ \E i \in 1..(5 + MaxExtra) : removeImage(i)
  \/ removeAllImages

SpecPick == Init /\ [][NextPick]_vars

\* ------------------------------------------------------------------ claims on saving
\* the positions of savedChats that a save writes: a new last one when no
\* conversation is active, else those of the active identifier
SavedAt ==
  IF currentChatId = <<>> THEN {Len(savedChats) + 1}
  ELSE {i \in 1..Len(savedChats) : savedChats[i].id = currentChatId[1]}

\* the text, cut to 50 characters and marked when it was longer
Truncated(text) ==
  IF Len(text) <= 50 THEN text ELSE SubSeq(text, 1, 50) \o <<".", ".", ".">>

IsPrefix(s, t) == Len(s) <= Len(t) /\ SubSeq(t, 1, Len(s)) = s

\* a save that takes no title from the dialog
SavesUntitled == saveChat /\ Len(messages) > 0 /\ trim(chatTitle) = <<>>

FirstUserText(msgs) == msgs[FirstUserIndex(msgs)].content

\* C11 as stated: a conversation saved without a title from the user is
\* titled by the text of its first user message, whole up to 50 characters and
\* cut to 50 followed by "..." beyond; saving it again after more messages
\* were appended gives the same title.
C11_TitleIsFirstUserText ==
  [][SavesUntitled =>
       \A i \in SavedAt :
         /\ (FirstUserIndex(messages) # 0 =>
               savedChats'[i].title = Truncated(FirstUserText(messages)))
         /\ (currentChatId # <<>> /\ IsPrefix(savedChats[i].messages, messages) =>
               savedChats'[i].title = savedChats[i].title)]_vars

\* C11 amended: the title is the text of the first user message, cut as
\* stated, when that message exists and its text is not empty; otherwise it
\* is "Conversa " followed by the date of the save.  Saving again after more
\* messages were appended gives the same title when the earlier save already
\* held a first user message with text.
C11_TitleIsFirstNonEmptyUserText ==
  [][SavesUntitled =>
       \A i \in SavedAt :
         /\ (FirstUserIndex(messages) # 0 /\ FirstUserText(messages) # <<>> =>
               savedChats'[i].title = Truncated(FirstUserText(messages)))
         /\ (FirstUserIndex(messages) = 0 \/ FirstUserText(messages) = <<>> =>
               savedChats'[i].title = ConversaPrefix \o toLocaleDateString(now))
         /\ (/\ currentChatId # <<>>
             /\ IsPrefix(savedChats[i].messages, messages)
             /\ FirstUserIndex(savedChats[i].messages) # 0
             /\ FirstUserText(savedChats[i].messages) # <<>>
             /\ savedChats[i].title = Truncated(FirstUserText(savedChats[i].messages))
             => savedChats'[i].title = savedChats[i].title)]_vars

\* C11 witness: a conversation whose first text exceeds 50 characters was
\* saved, and saved again after the reply was appended.
C11_Witness ==
  \E i \in 1..Len(savedChats) :
    /\ Len(savedChats[i].messages) >= 2
    /\ Len(savedChats[i].messages[1].content) > 50
    /\ Len(savedChats[i].title) = 53
    /\ savedChats[i].updatedAt # savedChats[i].createdAt

\* C12: whenever the store has been written by saveChat or deleteChat,
\* loading it as the page does on mount gives the saved conversations back, in
\* the same order, each with its messages in order and with the same
\* createdAt, updatedAt and message timestamps to the millisecond.
C12_RoundTrip ==
  store.present => LoadSavedChats(store) = savedChats

\* C12 witness: the page was loaded again on a store holding two
\* conversations of two messages each, saved at different times.
C12_Witness ==
  /\ lastOp = "mount"
  /\ Len(savedChats) = 2
  /\ \A i \in 1..2 : Len(savedChats[i].messages) = 2
  /\ savedChats[1].createdAt # savedChats[2].createdAt
  /\ store.present

\* what a store written by this program looks like
IsString(value) == Has(value, "t") /\ value.t = "string"
WellShapedMessage(msg) ==
  /\ IsObject(msg)
  /\ {"id", "role", "content", "timestamp"} \subseteq DOMAIN msg
  /\ IsString(msg.timestamp)
WellShapedChat(chat) ==
  /\ IsObject(chat)
  /\ {"id", "title", "messages", "createdAt", "updatedAt"} \subseteq DOMAIN chat
  /\ IsString(chat.createdAt)
  /\ IsString(chat.updatedAt)
  /\ IsArray(chat.messages)
  /\ \A i \in 1..Len(chat.messages.v) : WellShapedMessage(chat.messages.v[i])
WellShapedStore(st) ==
  /\ st.present
  /\ st.parse = "ok"
  /\ IsArray(st.value)
  /\ \A i \in 1..Len(st.value.v) : WellShapedChat(st.value.v[i])

\* C13 as stated: while the store entry is absent, is not parseable or holds
\* a value of the wrong shape, the saved conversations in memory are none.
C13_BadStoreLoadsEmpty ==
  ~WellShapedStore(store) => savedChats = <<>>

\* C14: saveChat with messages and no active identifier appends exactly one
\* conversation with a new identifier and makes it the active one; with an
\* active identifier it rewrites title, messages and updatedAt of exactly
\* that conversation, keeps its identifier and createdAt, and leaves the
\* number of saved conversations and every other one as they were; with no
\* messages it changes nothing.
C14_SaveFrame ==
  [][saveChat =>
       IF Len(messages) = 0
       THEN UNCHANGED <<messages, input, selectedImages, currentChatId, savedChats,
                        showSaveDialog, chatTitle, store, isLoading>>
       ELSE IF currentChatId = <<>>
       THEN /\ Len(savedChats') = Len(savedChats) + 1
            /\ SubSeq(savedChats', 1, Len(savedChats)) = savedChats
            /\ savedChats'[Len(savedChats')].messages = messages
            /\ \A i \in 1..Len(savedChats) :
                 savedChats[i].id # savedChats'[Len(savedChats')].id
            /\ currentChatId' = <<savedChats'[Len(savedChats')].id>>
       ELSE /\ Len(savedChats') = Len(savedChats)
            /\ currentChatId' = currentChatId
            /\ Cardinality(SavedAt) = 1
            /\ \A i \in 1..Len(savedChats) :
                 IF i \in SavedAt
                 THEN /\ savedChats'[i].id = savedChats[i].id
                      /\ savedChats'[i].createdAt = savedChats[i].createdAt
                      /\ savedChats'[i].title = SaveTitle
                      /\ savedChats'[i].messages = messages
                      /\ savedChats'[i].updatedAt = now
                 ELSE savedChats'[i] = savedChats[i]]_vars

\* C14 witness: of two saved conversations the active one, first saved while
\* its exchange ran, has been saved again with the reply.
C14_Witness ==
  /\ lastOp = "saveChat"
  /\ Len(savedChats) = 2
  /\ currentChatId = <<savedChats[2].id>>
  /\ savedChats[2].updatedAt # savedChats[2].createdAt
  /\ Len(savedChats[2].messages) = 2
  /\ savedChats[2].messages = messages

\* C15: a confirmed deleteChat of a saved conversation removes exactly that
\* one from savedChats and writes the remaining ones to the store; when it is
\* the active conversation, messages, active identifier, selected images and
\* input are emptied by the same step, and otherwise messages and active
\* identifier stay.
C15_DeleteFrame ==
  [][\A i \in 1..Len(savedChats) :
       deleteChat(i, TRUE) =>
         /\ savedChats' = RemoveAt(savedChats, i)
         /\ store' = StoreWritten(RemoveAt(savedChats, i))
         /\ LoadSavedChats(store') = RemoveAt(savedChats, i)
         /\ IF currentChatId = <<savedChats[i].id>>
            THEN /\ messages' = <<>>
                 /\ currentChatId' = <<>>
                 /\ selectedImages' = <<>>
                 /\ input' = <<>>
            ELSE UNCHANGED <<messages, currentChatId>>]_vars

\* C15 witness: of two saved conversations the one that is not active has
\* been deleted, the active one and its messages staying.
C15_Witness ==
  /\ lastOp = "deleteChat"
  /\ Len(savedChats) = 1
  /\ currentChatId = <<savedChats[1].id>>
  /\ messages = savedChats[1].messages
  /\ Len(messages) > 0

\* C19: the active identifier is null or the identifier of exactly one saved
\* conversation, and the store, once written, holds exactly the saved
\* conversations.
C19_ActiveIsSaved ==
  /\ currentChatId = <<>> \/
       Cardinality({i \in 1..Len(savedChats) : savedChats[i].id = currentChatId[1]}) = 1
  /\ IF store.present THEN store = StoreWritten(savedChats) ELSE savedChats = <<>>

\* C19 witness: of two saved conversations the older one was loaded and has
\* been saved again.
C19_Witness ==
  /\ lastOp = "saveChat"
  /\ Len(savedChats) = 2
  /\ currentChatId = <<savedChats[1].id>>
  /\ savedChats[1].updatedAt > savedChats[2].updatedAt
  /\ store.present

\* a submission made now would be accepted whenever it carries a text or an image
AcceptsSubmission ==
  (trim(input) # <<>> \/ Len(selectedImages) > 0) => ~SubmitRejected

\* C16: if every fetch settles, every accepted submission is followed by a
\* state in which handleSubmit has run to its end: isLoading and
\* isGeneratingImage are false again, an assistant message has been appended
\* for the turn, and a new submission is accepted; whatever the user does
\* meanwhile.
C16_EveryTurnResolves ==
  (pc # "idle") ~>
    (/\ TurnResolved
     /\ ~isLoading
     /\ ~isGeneratingImage
     /\ Len(appended) >= 2
     /\ appended[Len(appended)].role = "assistant"
     /\ AcceptsSubmission)

\* C16 witness: the conversation was left while the exchange ran, and the
\* exchange has still run to its end with a new text already typed.
C16_Witness ==
  /\ TurnResolved
  /\ ~isLoading
  /\ ~isGeneratingImage
  /\ Len(appended) >= 2
  /\ Len(messages) < Len(appended)
  /\ trim(input) # <<>>
  /\ ~SubmitRejected

\* C17 as stated: the identifiers of the messages of the active conversation
\* are pairwise distinct.
C17_DistinctIds ==
  \A i, j \in 1..Len(messages) : i # j => messages[i].id # messages[j].id

InList(msg, list) == \E i \in 1..Len(list) : list[i] = msg

\* C18 as stated: an assistant message appended for a turn is in the active
\* conversation only together with the user message of that turn.
C18_ReplyStaysWithItsTurn ==
  \A k \in 2..Len(appended) :
    InList(appended[k], messages) => InList(appended[1], messages)

\* C20 as stated: selectedImages never holds more than 5 entries.
C20_AtMostFiveImages == Len(selectedImages) <= 5

====
